---- MODULE Spec2Model ----
(***************************************************************************)
(* A model of github-linear-sync: the per-issue pipeline                   *)
(* syncGithubIssueToLinear, the batch coordinator syncIssues (both in      *)
(* src/linear.ts, kept as src/unnamed/part_000) and the `sync` command's   *)
(* pre-flight filter (src/src/api/github.ts); beside them, each under a    *)
(* specification of its own, createGithubTitle and fetchGithubIssues.      *)
(*                                                                         *)
(* Strings are sequences of tokens; the tokens are cut so that every       *)
(* substring test the code makes (description contains URL, url.includes)  *)
(* falls on token borders: an issue number is one token per decimal digit. *)
(* Each await of a remote call is one step of the model, taken at the      *)
(* moment the remote system answers.                                       *)
(***************************************************************************)
EXTENDS Integers, Sequences, FiniteSets

\* Longest batch handed to the sync command.
MaxBatch == 2

\* Number of runs of the sync command in the re-run specification.
MaxRuns == 2

\* Longest issue title, in characters, that createGithubTitle is applied to.
MaxTitleLen == 2

\* Most repositories named in one call of fetchGithubIssues.
MaxRepos == 2

-----------------------------------------------------------------------------
(* Strings *)

DigitChar == <<"0", "1", "2", "3", "4", "5", "6", "7", "8", "9">>

\* Number -> its decimal digits, as `${issue.number}` prints it.
RECURSIVE ToDigits(_)
ToDigits(n) ==
    IF n < 10 THEN <<DigitChar[n + 1]>>
    ELSE ToDigits(n \div 10) \o <<DigitChar[(n % 10) + 1]>>

\* String.prototype.includes and Linear's `contains` filter: t occurs in s.
Includes(s, t) ==
    \E k \in 0..(Len(s) - Len(t)) : SubSeq(s, k + 1, k + Len(t)) = t

\* String.prototype.split(sep): the pieces between the separators.
RECURSIVE Split(_, _)
Split(s, sep) ==
    IF \A k \in 1..Len(s) : s[k] # sep THEN <<s>>
    ELSE LET k == CHOOSE j \in 1..Len(s) : s[j] = sep /\ \A h \in 1..(j - 1) : s[h] # sep
         IN  <<SubSeq(s, 1, k - 1)>> \o Split(SubSeq(s, k + 1, Len(s)), sep)

\* Array.prototype.slice(-2)
SliceLast2(s) == SubSeq(s, IF Len(s) > 2 THEN Len(s) - 1 ELSE 1, Len(s))

\* Array.prototype.join(sep), on an array of strings (each a token sequence)
RECURSIVE Join(_, _)
Join(parts, sep) ==
    IF Len(parts) = 0 THEN <<>>
    ELSE IF Len(parts) = 1 THEN parts[1]
    ELSE parts[1] \o sep \o Join(Tail(parts), sep)

\* Array.prototype.filter(Boolean) on an array of strings: drops the empty ones.
FilterBoolean(parts) == SelectSeq(parts, LAMBDA p : p # <<>>)

-----------------------------------------------------------------------------
(* The source tracker: the GithubIssue objects the sync works on *)

IssueIds == {"A", "B", "C"}
IssueOrder == <<"A", "B", "C">>

\* html_url and repository_url as GitHub's API gives them.
HtmlUrlOf(owner, repo, number) ==
    <<"https://github.com/">> \o owner \o <<"/">> \o repo \o <<"/issues/">>
    \o ToDigits(number)

RepositoryUrlOf(owner, repo) ==
    <<"https:", "/", "/", "api.github.com", "/", "repos", "/">> \o owner \o <<"/">> \o repo

\* A is number 1 and B number 12 of the same repository: A's URL is a proper
\* prefix of B's.  C is number 1 of another repository.
GithubIssue ==
    [i \in IssueIds |->
        CASE i = "A" -> [number |-> 1, title |-> <<"Fix race">>, body |-> <<>>,
                         html_url |-> HtmlUrlOf(<<"acme">>, <<"widgets">>, 1),
                         repository_url |-> RepositoryUrlOf(<<"acme">>, <<"widgets">>)]
          [] i = "B" -> [number |-> 12, title |-> <<"Add docs">>, body |-> <<"body">>,
                         html_url |-> HtmlUrlOf(<<"acme">>, <<"widgets">>, 12),
                         repository_url |-> RepositoryUrlOf(<<"acme">>, <<"widgets">>)]
          [] OTHER   -> [number |-> 1, title |-> <<"Fix race">>, body |-> <<"body">>,
                         html_url |-> HtmlUrlOf(<<"acme">>, <<"gadgets">>, 1),
                         repository_url |-> RepositoryUrlOf(<<"acme">>, <<"gadgets">>)]]

IssueStates == {"open", "closed"}

-----------------------------------------------------------------------------
(* The derived title and description *)

\* A title with no separator between the number and the issue's own title.
createGithubTitleUnseparated(issue) ==
    <<"[GH] ">>
    \o Join(SliceLast2(Split(issue.repository_url, "/")), <<"/">>)
    \o <<"#">> \o ToDigits(issue.number) \o issue.title

\* createGithubTitle: `[GH] ${owner/repo}#${number}: ${title}`
createGithubTitle(issue) ==
    <<"[GH] ">>
    \o Join(SliceLast2(Split(issue.repository_url, "/")), <<"/">>)
    \o <<"#">> \o ToDigits(issue.number) \o <<":", " ">> \o issue.title

\* new Date().toISOString(): the clock is read once per run of the command.
ToISOString(now) == <<DigitChar[now + 1]>>

\* A description whose deletion warning does not depend on the existence check.
DescriptionWithoutWarning(issue, githubIssueExists, now) ==
    Join(FilterBoolean(<<
            issue.body,
            <<>>,
            <<"GitHub: ">> \o issue.html_url,
            <<>>,
            <<"Last Synced: ">> \o ToISOString(now)
         >>), <<"\n">>)

\* The description of issueData: the segments, the empty ones dropped, joined
\* by newlines.
DescriptionOf(issue, githubIssueExists, now) ==
    Join(FilterBoolean(<<
            issue.body,
            <<>>,
            <<"GitHub: ">> \o issue.html_url,
            IF githubIssueExists THEN <<>> ELSE <<"Original GitHub issue was deleted">>,
            <<"Last Synced: ">> \o ToISOString(now)
         >>), <<"\n">>)

-----------------------------------------------------------------------------
(* The mirror system's configuration: projects and the team's workflow *)

teamId == "team1"

\* client.projects({}).nodes
Projects ==
    << [id |-> "p1", slugId |-> "s1",
        url |-> <<"https://linear.app/ws", "/project/", "alpha-", "s1">>],
       [id |-> "p2", slugId |-> "s2",
        url |-> <<"https://linear.app/ws", "/project/", "beta-", "s2">>] >>

\* The caller's loose project reference: an id, a slug, a fragment of a URL
\* (which several projects may share), or something no project matches.
ProjectRefs == { <<"p2">>, <<"s2">>, <<"/project/">>, <<"zz">> }

ProjectMatches(p, projectIdOrSlug) ==
    \/ <<p.id>> = projectIdOrSlug
    \/ <<p.slugId>> = projectIdOrSlug
    \/ Includes(p.url, projectIdOrSlug)

\* A lookup that falls back on the first project when none matches.
FindProjectOrFirst(projectIdOrSlug) ==
    IF \E k \in 1..Len(Projects) : ProjectMatches(Projects[k], projectIdOrSlug)
    THEN CHOOSE k \in 1..Len(Projects) :
            /\ ProjectMatches(Projects[k], projectIdOrSlug)
            /\ \A j \in 1..(k - 1) : ~ProjectMatches(Projects[j], projectIdOrSlug)
    ELSE 1

\* nodes.find(...): the index of the first matching project, 0 for undefined.
FindProject(projectIdOrSlug) ==
    IF \E k \in 1..Len(Projects) : ProjectMatches(Projects[k], projectIdOrSlug)
    THEN CHOOSE k \in 1..Len(Projects) :
            /\ ProjectMatches(Projects[k], projectIdOrSlug)
            /\ \A j \in 1..(k - 1) : ~ProjectMatches(Projects[j], projectIdOrSlug)
    ELSE 0

\* client.workflowStates({filter: team}).nodes, for the three teams configured
\* rightly, without a Done stage and without a Backlog stage.
Workflows ==
    { << [id |-> "w1", name |-> "Todo"], [id |-> "w2", name |-> "Backlog"],
         [id |-> "w3", name |-> "Done"] >>,
      << [id |-> "w1", name |-> "Todo"], [id |-> "w2", name |-> "Backlog"] >>,
      << [id |-> "w1", name |-> "Todo"], [id |-> "w3", name |-> "Done"] >> }

\* workflow.nodes.find(s => s.name === name): the index, 0 for undefined.
FindState(nodes, name) ==
    IF \E k \in 1..Len(nodes) : nodes[k].name = name
    THEN CHOOSE k \in 1..Len(nodes) :
            nodes[k].name = name /\ \A j \in 1..(k - 1) : nodes[j].name # name
    ELSE 0

\* getWorkflowStates throws when a stage is missing.
StatesMissing(nodes) == FindState(nodes, "Backlog") = 0 \/ FindState(nodes, "Done") = 0

BacklogId(nodes) == nodes[FindState(nodes, "Backlog")].id
DoneId(nodes) == nodes[FindState(nodes, "Done")].id

-----------------------------------------------------------------------------
(* State *)

VARIABLES
    issues,           \* the GithubIssue list the command fetched (issue ids)
    state,            \* state[i]: the lifecycle state of issue i, "open" or "closed"
    projectIdOrSlug,  \* the caller's project reference (opts.project)
    workflow,         \* the team's workflow states, as the mirror system lists them
    linear,           \* the mirror system: its issue records, record k has id k
    linear0,          \* the mirror system as it was when the run began
    run,              \* the number of the run of the command; also its clock
    phase,            \* where the command is: fetched, filtering, aborted, syncing, returned
    filterPending,    \* pre-flight filter, per fetched issue: "querying", "kept", "dropped"
    filtered,         \* the list passed to syncIssues
    pc,               \* per pipeline: the remote call it awaits, or "settled"
    existingIssue,    \* per pipeline: findExistingIssue's answer: -1 none yet, 0 null, k record k
    githubAnswer,     \* per pipeline: what octokit.issues.get did: pending, found, notfound, error
    call,             \* per pipeline: the write it has issued, kind "none" before
    settled,          \* per pipeline: how its promise settled, status "pending" before
    results,          \* what syncIssues returned: [succeeded, failed]
    previous,         \* the run before this one: its list, calls, outcomes and record count
    steps,            \* per pipeline: the steps it has run through, in the order it ran them
    probe,            \* createGithubTitle applied to a pair of issues
    fetch             \* fetchGithubIssues: one call of it

vars == <<issues, state, projectIdOrSlug, workflow, linear, linear0, run, phase,
          filterPending, filtered, pc, existingIssue, githubAnswer, call, settled,
          results, previous, steps, probe, fetch>>

\* What the sync command's run leaves alone: the variables of the other
\* specifications.
aside == <<probe, fetch>>

config == <<issues, state, projectIdOrSlug, workflow>>

NoCall == [kind |-> "none", id |-> 0, input |-> <<>>]
Pending == [status |-> "pending", value |-> 0, message |-> <<>>]
NoResults == [succeeded |-> <<>>, failed |-> <<>>]
NoPrevious == [filtered |-> <<>>, call |-> <<>>, settled |-> <<>>,
               githubAnswer |-> <<>>, count |-> 0]

Fulfilled(v) == [status |-> "fulfilled", value |-> v, message |-> <<>>]
Rejected(m) == [status |-> "rejected", value |-> 0, message |-> m]

NoProbe == [a |-> GithubIssue["A"], b |-> GithubIssue["A"], titles |-> <<>>]
NoFetch == [status |-> "idle", repos |-> <<>>, authors |-> <<>>, pairs |-> <<>>,
            pc |-> <<>>, promises |-> <<>>, result |-> <<>>]

\* The message of an error a remote call threw.
RemoteError == <<"remote error">>

-----------------------------------------------------------------------------
(* The batches and the mirror system the command may start from *)

RECURSIVE ListsUpTo(_)
ListsUpTo(n) ==
    IF n = 0 THEN {<<>>}
    ELSE LET shorter == ListsUpTo(n - 1)
         IN  shorter \cup
             { Append(b, IssueOrder[k]) : b \in {c \in shorter : Len(c) = n - 1},
                                          k \in 1..Len(IssueOrder) }

Rank(i) == CHOOSE k \in 1..Len(IssueOrder) : IssueOrder[k] = i

\* The lists the source tracker may return, up to the order of their issues;
\* an issue may be listed twice (two repositories arguments naming one repo).
Batches ==
    { b \in ListsUpTo(MaxBatch) :
        /\ Len(b) >= 1
        /\ \A k \in 1..(Len(b) - 1) : Rank(b[k]) <= Rank(b[k + 1]) }

InBatch(b) == { b[k] : k \in 1..Len(b) }

\* A record an earlier run created for issue i, still in the backlog.
MirrorOf(i) ==
    [title |-> createGithubTitle(GithubIssue[i]),
     description |-> DescriptionOf(GithubIssue[i], TRUE, 0),
     projectId |-> "p2", teamId |-> teamId, stateId |-> "w2"]

\* The mirror system holding one such record for each issue of `seeded`.
MirrorSystem(seeded) ==
    LET ids == SelectSeq(IssueOrder, LAMBDA i : i \in seeded)
    IN  [k \in 1..Len(ids) |-> MirrorOf(ids[k])]

Init ==
    /\ issues \in Batches
    /\ state \in [IssueIds -> IssueStates]
    /\ \A i \in IssueIds \ InBatch(issues) : state[i] = "open"
    /\ projectIdOrSlug \in ProjectRefs
    /\ workflow \in Workflows
    /\ \E seeded \in SUBSET InBatch(issues) :
          /\ linear = MirrorSystem(seeded)
          /\ linear0 = MirrorSystem(seeded)
    /\ run = 1
    /\ phase = "fetched"
    /\ filterPending = <<>>
    /\ filtered = <<>>
    /\ pc = <<>>
    /\ existingIssue = <<>>
    /\ githubAnswer = <<>>
    /\ call = <<>>
    /\ settled = <<>>
    /\ results = NoResults
    /\ previous = NoPrevious
    /\ steps = <<>>
    /\ probe = NoProbe
    /\ fetch = NoFetch

-----------------------------------------------------------------------------
(* The per-issue pipeline's pure steps *)

\* findExistingIssue's query: the records whose description contains the
\* issue's URL or whose title equals its derived title.
MatchingRecords(records, issue) ==
    { k \in 1..Len(records) :
        \/ Includes(records[k].description, issue.html_url)
        \/ records[k].title = createGithubTitle(issue) }

\* issues.nodes[0] ?? null: the mirror system orders the matches as it likes,
\* so any of them may be the first; 0 is null.
FindExistingIssue(records, issue) ==
    IF MatchingRecords(records, issue) = {} THEN {0}
    ELSE MatchingRecords(records, issue)

\* The short circuit with its negation dropped (existingIssue for !existingIssue).
SkipsClosedNegationDropped(existing, issueState) ==
    existing # 0 /\ issueState = "closed"

\* The short circuit: no existing record and a closed source issue.
SkipsClosed(existing, issueState) == existing = 0 /\ issueState = "closed"

\* project.id of the project the reference resolves to.
ProjectIdOf(ref) == Projects[FindProject(ref)].id

\* stateId without the existence check's answer.
StateIdIgnoringExistence(issueState, githubIssueExists, nodes) ==
    IF issueState = "closed" THEN DoneId(nodes) ELSE BacklogId(nodes)

\* stateId of issueData
StateIdOf(issueState, githubIssueExists, nodes) ==
    IF issueState = "closed" \/ ~githubIssueExists THEN DoneId(nodes) ELSE BacklogId(nodes)

\* issueData carrying the caller's reference where the project's id belongs.
IssueDataWithLooseRef(i, githubIssueExists, now) ==
    [title |-> createGithubTitle(GithubIssue[i]),
     description |-> DescriptionOf(GithubIssue[i], githubIssueExists, now),
     projectId |-> projectIdOrSlug[1],
     teamId |-> teamId,
     stateId |-> IF state[i] = "closed" \/ ~githubIssueExists
                 THEN DoneId(workflow) ELSE BacklogId(workflow)]

\* issueData
IssueDataOf(i, githubIssueExists, now) ==
    [title |-> createGithubTitle(GithubIssue[i]),
     description |-> DescriptionOf(GithubIssue[i], githubIssueExists, now),
     projectId |-> ProjectIdOf(projectIdOrSlug),
     teamId |-> teamId,
     stateId |-> StateIdOf(state[i], githubIssueExists, workflow)]

\* The write that creates whatever was matched.
WriteAlwaysCreates(existing, issueData) ==
    [kind |-> "create", id |-> 0, input |-> issueData]

\* existingIssue ? existingIssue.update(issueData) : client.createIssue(issueData)
WriteOf(existing, issueData) ==
    IF existing # 0 THEN [kind |-> "update", id |-> existing, input |-> issueData]
    ELSE [kind |-> "create", id |-> 0, input |-> issueData]

\* A mirror system that carries out a create twice.
AppliedTwice(records, c) ==
    IF c.kind = "update" THEN [records EXCEPT ![c.id] = c.input]
    ELSE Append(Append(records, c.input), c.input)

\* The mirror system after it has carried out a write.
Applied(records, c) ==
    IF c.kind = "update" THEN [records EXCEPT ![c.id] = c.input]
    ELSE Append(records, c.input)

\* The id of the record a write leaves behind (the IssuePayload's issue).
PayloadOf(records, c) == IF c.kind = "update" THEN c.id ELSE Len(records) + 1

-----------------------------------------------------------------------------
(* syncIssues: the fan-out *)

\* issues.map(issue => syncGithubIssueToLinear(...)): every pipeline runs to
\* its first await, the project listing, or throws for want of a URL.
Launch(batch) ==
    /\ filtered' = batch
    /\ pc' = [p \in 1..Len(batch) |->
                IF GithubIssue[batch[p]].html_url = <<>> THEN "settled" ELSE "projects"]
    /\ existingIssue' = [p \in 1..Len(batch) |-> -1]
    /\ githubAnswer' = [p \in 1..Len(batch) |-> "pending"]
    /\ call' = [p \in 1..Len(batch) |-> NoCall]
    /\ steps' = [p \in 1..Len(batch) |-> <<>>]
    /\ settled' = [p \in 1..Len(batch) |->
                IF GithubIssue[batch[p]].html_url = <<>>
                THEN Rejected(<<"GitHub issue URL is required">>) ELSE Pending]
    /\ phase' = "syncing"

\* syncIssues called on the fetched list as it is (the filter bypassed).
SyncUnfiltered ==
    /\ phase = "fetched"
    /\ Launch(issues)
    /\ UNCHANGED <<config, linear, linear0, run, filterPending, results, previous, aside>>

-----------------------------------------------------------------------------
(* The sync command's pre-flight filter *)

StartFilter ==
    /\ phase = "fetched"
    /\ phase' = "filtering"
    /\ filterPending' = [p \in 1..Len(issues) |-> "querying"]
    /\ UNCHANGED <<config, linear, linear0, run, filtered, pc, existingIssue,
                   githubAnswer, call, settled, results, previous, steps, aside>>

\* A filter that drops every closed issue, with or without a record.
FilterDropsEveryClosed(existing, issueState) == issueState = "closed"

\* existingIssue === null && issue.state.toLowerCase() === 'closed'
FilterDrops(existing, issueState) == existing = 0 /\ issueState = "closed"

\* One issue's findExistingIssue answers.
FilterFind(p) ==
    /\ phase = "filtering"
    /\ filterPending[p] = "querying"
    /\ \E existing \in FindExistingIssue(linear, GithubIssue[issues[p]]) :
          filterPending' = [filterPending EXCEPT ![p] =
              IF FilterDrops(existing, state[issues[p]]) THEN "dropped" ELSE "kept"]
    /\ UNCHANGED <<config, linear, linear0, run, phase, filtered, pc, existingIssue,
                   githubAnswer, call, settled, results, previous, steps, aside>>

\* One issue's findExistingIssue throws: Promise.all rejects, nothing in the
\* action catches it, and the command ends there.
FilterFindFail(p) ==
    /\ phase = "filtering"
    /\ filterPending[p] = "querying"
    /\ phase' = "aborted"
    /\ UNCHANGED <<config, linear, linear0, run, filterPending, filtered, pc,
                   existingIssue, githubAnswer, call, settled, results, previous, steps, aside>>

\* filteredIssues.filter(issue => issue !== undefined)
KeptIssues ==
    LET kept == SelectSeq([p \in 1..Len(issues) |-> p],
                          LAMBDA p : filterPending[p] = "kept")
    IN  [k \in 1..Len(kept) |-> issues[kept[k]]]

\* Promise.all has resolved: syncIssues is called on what the filter kept.
SyncFiltered ==
    /\ phase = "filtering"
    /\ \A p \in 1..Len(issues) : filterPending[p] # "querying"
    /\ Launch(KeptIssues)
    /\ UNCHANGED <<config, linear, linear0, run, filterPending, results, previous, aside>>

-----------------------------------------------------------------------------
(* syncGithubIssueToLinear: one step per await *)

Awaits(p, what) == phase = "syncing" /\ p \in 1..Len(filtered) /\ pc[p] = what

\* The pipeline throws: its promise is rejected with the error.
Throws(p, message) ==
    /\ pc' = [pc EXCEPT ![p] = "settled"]
    /\ settled' = [settled EXCEPT ![p] = Rejected(message)]

\* A remote call of the pipeline throws and nothing in it catches.
RemoteCallFails(p, what) ==
    /\ Awaits(p, what)
    /\ Throws(p, RemoteError)
    /\ UNCHANGED <<config, linear, linear0, run, phase, filterPending, filtered,
                   existingIssue, githubAnswer, call, results, previous, steps, aside>>

\* client.projects({}) answers and the reference is looked up in the list.
ProjectsReturn(p) ==
    /\ Awaits(p, "projects")
    /\ IF FindProject(projectIdOrSlug) = 0
       THEN Throws(p, <<"Linear project not found: ">> \o projectIdOrSlug)
       ELSE pc' = [pc EXCEPT ![p] = "states"] /\ UNCHANGED settled
    /\ UNCHANGED <<config, linear, linear0, run, phase, filterPending, filtered,
                   existingIssue, githubAnswer, call, results, previous, steps, aside>>

ProjectsFail(p) == RemoteCallFails(p, "projects")

\* The names getWorkflowStates reports missing, joined by ", ".
MissingStates(nodes) ==
    Join(FilterBoolean(<<IF FindState(nodes, "Backlog") = 0 THEN <<"Backlog">> ELSE <<>>,
                         IF FindState(nodes, "Done") = 0 THEN <<"Done">> ELSE <<>> >>),
         <<", ">>)

\* getWorkflowStates: client.workflowStates answers.
StatesReturn(p) ==
    /\ Awaits(p, "states")
    /\ IF StatesMissing(workflow)
       THEN Throws(p, <<"Required workflow states missing for team ", teamId, ": ">>
                      \o MissingStates(workflow))
       ELSE pc' = [pc EXCEPT ![p] = "find"] /\ UNCHANGED settled
    /\ UNCHANGED <<config, linear, linear0, run, phase, filterPending, filtered,
                   existingIssue, githubAnswer, call, results, previous, steps, aside>>

StatesFail(p) == RemoteCallFails(p, "states")

\* findExistingIssue: client.issues answers.
FindReturn(p) ==
    /\ Awaits(p, "find")
    /\ \E existing \in FindExistingIssue(linear, GithubIssue[filtered[p]]) :
          existingIssue' = [existingIssue EXCEPT ![p] = existing]
    /\ pc' = [pc EXCEPT ![p] = "exists"]
    /\ steps' = [steps EXCEPT ![p] = Append(@, "match")]
    /\ UNCHANGED <<config, linear, linear0, run, phase, filterPending, filtered,
                   githubAnswer, call, settled, results, previous, aside>>

FindFail(p) == RemoteCallFails(p, "find")

\* The steps the pipeline runs through, in the order of the code, once
\* checkGithubIssueExists has answered: the short circuit is tested, and only
\* when it lets the issue pass is issueData built and the write issued.
StepsAfterCheck(skips) ==
    IF skips THEN <<"check", "gate">> ELSE <<"check", "gate", "derive", "write">>

\* checkGithubIssueExists has its answer; the pipeline runs on through the
\* short circuit and the building of issueData to the write, which it issues.
Checked(p, answer) ==
    /\ Awaits(p, "exists")
    /\ githubAnswer' = [githubAnswer EXCEPT ![p] = answer]
    /\ steps' = [steps EXCEPT ![p] =
          @ \o StepsAfterCheck(SkipsClosed(existingIssue[p], state[filtered[p]]))]
    /\ IF SkipsClosed(existingIssue[p], state[filtered[p]])
       THEN /\ Throws(p, <<"Skipping closed GitHub issue: ">>
                         \o GithubIssue[filtered[p]].html_url)
            /\ UNCHANGED call
       ELSE /\ call' = [call EXCEPT ![p] =
                  WriteOf(existingIssue[p],
                          IssueDataOf(filtered[p], answer = "found", run))]
            /\ pc' = [pc EXCEPT ![p] = "write"]
            /\ UNCHANGED settled
    /\ UNCHANGED <<config, linear, linear0, run, phase, filterPending, filtered,
                   existingIssue, results, previous, aside>>

\* octokit.issues.get answers: the issue is there (true), or it is gone and
\* the 404 is caught (false).
ExistsReturn(p) == \E answer \in {"found", "notfound"} : Checked(p, answer)

\* octokit.issues.get fails otherwise (rate limit, network, 5xx): the catch
\* takes that too and returns false.
ExistsFail(p) == Checked(p, "error")

\* The mirror system carries out the write and answers.
WriteReturn(p) ==
    /\ Awaits(p, "write")
    /\ linear' = Applied(linear, call[p])
    /\ pc' = [pc EXCEPT ![p] = "settled"]
    /\ settled' = [settled EXCEPT ![p] = Fulfilled(PayloadOf(linear, call[p]))]
    /\ UNCHANGED <<config, linear0, run, phase, filterPending, filtered,
                   existingIssue, githubAnswer, call, results, previous, steps, aside>>

\* The write fails: nothing is written.
WriteFail(p) == RemoteCallFails(p, "write")

-----------------------------------------------------------------------------
(* syncIssues: the join *)

\* A join that resolves with the first promise to settle.
AnySettled(promises) == \E p \in 1..Len(promises) : promises[p].status # "pending"

\* Promise.allSettled resolves once no promise is pending.
AllSettled(promises) == \A p \in 1..Len(promises) : promises[p].status # "pending"

Positions(promises, status) ==
    SelectSeq([p \in 1..Len(promises) |-> p], LAMBDA p : promises[p].status = status)

\* A partition that reports every failure as 'Unknown error'.
PartitionUnknownError(promises) ==
    LET ok == Positions(promises, "fulfilled")
        ko == Positions(promises, "rejected")
    IN  [succeeded |-> [k \in 1..Len(ok) |-> promises[ok[k]].value],
         failed |-> [k \in 1..Len(ko) |->
                        [error |-> promises[ko[k]].message,
                         message |-> <<"Unknown error">>]]]

\* The {succeeded, failed} partition of the settled results, in input order.
Partition(promises) ==
    LET ok == Positions(promises, "fulfilled")
        ko == Positions(promises, "rejected")
    IN  [succeeded |-> [k \in 1..Len(ok) |-> promises[ok[k]].value],
         failed |-> [k \in 1..Len(ko) |->
                        [error |-> promises[ko[k]].message,
                         message |-> promises[ko[k]].message]]]

Return ==
    /\ phase = "syncing"
    /\ AllSettled(settled)
    /\ results' = Partition(settled)
    /\ phase' = "returned"
    /\ UNCHANGED <<config, linear, linear0, run, filterPending, filtered, pc,
                   existingIssue, githubAnswer, call, settled, previous, steps, aside>>

\* The command is run again on the same source issues.
Rerun ==
    /\ phase = "returned"
    /\ run < MaxRuns
    /\ run' = run + 1
    /\ previous' = [filtered |-> filtered, call |-> call, settled |-> settled,
                    githubAnswer |-> githubAnswer, count |-> Len(linear)]
    /\ linear0' = linear
    /\ phase' = "fetched"
    /\ filterPending' = <<>>
    /\ filtered' = <<>>
    /\ pc' = <<>>
    /\ existingIssue' = <<>>
    /\ githubAnswer' = <<>>
    /\ call' = <<>>
    /\ settled' = <<>>
    /\ results' = NoResults
    /\ steps' = <<>>
    /\ UNCHANGED <<config, linear, aside>>

-----------------------------------------------------------------------------
(* Specifications *)

Slots == 1..MaxBatch

Next ==
    \/ SyncUnfiltered
    \/ StartFilter
    \/ \E p \in Slots : p <= Len(issues) /\ FilterFind(p)
    \/ \E p \in Slots : p <= Len(issues) /\ FilterFindFail(p)
    \/ SyncFiltered
    \/ \E p \in Slots : ProjectsReturn(p)
    \/ \E p \in Slots : ProjectsFail(p)
    \/ \E p \in Slots : StatesReturn(p)
    \/ \E p \in Slots : StatesFail(p)
    \/ \E p \in Slots : FindReturn(p)
    \/ \E p \in Slots : FindFail(p)
    \/ \E p \in Slots : ExistsReturn(p)
    \/ \E p \in Slots : ExistsFail(p)
    \/ \E p \in Slots : WriteReturn(p)
    \/ \E p \in Slots : WriteFail(p)
    \/ Return

\* One run of the sync command, from the fetched list to syncIssues' return.
Spec == Init /\ [][Next]_vars

NextRerun == Next \/ Rerun

\* The re-run is followed for a project given by its slug and for one that
\* does not resolve; how the reference is written plays no part in it.
InitRerun == Init /\ projectIdOrSlug \in {<<"s2">>, <<"zz">>}

\* The sync command run MaxRuns times in succession on the same source issues.
SpecRerun == InitRerun /\ [][NextRerun]_vars

-----------------------------------------------------------------------------
(* createGithubTitle on its own *)

\* The characters of the issue titles tried: a digit and the separators the
\* derived title itself is built with.
TitleChars == {"2", ":", " ", "#"}

Titles == UNION { [1..n -> TitleChars] : n \in 0..MaxTitleLen }

\* Owner and name of the repositories tried; GitHub allows letters, digits,
\* '-', '_' and '.' in them.
Repositories ==
    { << <<"a">>, <<"b">> >>, << <<"a">>, <<"b", "1">> >>, << <<"a", "1">>, <<"b">> >> }

IssueNumbers == {1, 2, 12}

Bodies == {<<>>, <<"body">>}

\* The issue object GitHub gives for a repository, a number, a title and a body.
IssueOf(repository, number, title, body) ==
    [number |-> number, title |-> title, body |-> body,
     html_url |-> HtmlUrlOf(repository[1], repository[2], number),
     repository_url |-> RepositoryUrlOf(repository[1], repository[2])]

\* Nothing of the sync command is running.
SyncIdle ==
    /\ issues = <<"A">>
    /\ state = [i \in IssueIds |-> "open"]
    /\ projectIdOrSlug = <<"p2">>
    /\ workflow \in Workflows /\ ~StatesMissing(workflow)
    /\ linear = <<>>
    /\ linear0 = <<>>
    /\ run = 1
    /\ phase = "fetched"
    /\ filterPending = <<>>
    /\ filtered = <<>>
    /\ pc = <<>>
    /\ existingIssue = <<>>
    /\ githubAnswer = <<>>
    /\ call = <<>>
    /\ settled = <<>>
    /\ results = NoResults
    /\ previous = NoPrevious
    /\ steps = <<>>

InitTitle ==
    /\ SyncIdle
    /\ fetch = NoFetch
    /\ \E ra, rb \in Repositories, na, nb \in IssueNumbers, ta, tb \in Titles,
          body \in Bodies :
          probe = [a |-> IssueOf(ra, na, ta, <<>>), b |-> IssueOf(rb, nb, tb, body),
                   titles |-> <<>>]

\* createGithubTitle applied to the two issues.
DeriveTitles ==
    /\ probe.titles = <<>>
    /\ probe' = [probe EXCEPT !.titles =
                    <<createGithubTitle(probe.a), createGithubTitle(probe.b)>>]
    /\ UNCHANGED <<config, linear, linear0, run, phase, filterPending, filtered, pc,
                   existingIssue, githubAnswer, call, settled, results, previous,
                   steps, fetch>>

NextTitle == DeriveTitles

SpecTitle == InitTitle /\ [][NextTitle]_vars

-----------------------------------------------------------------------------
(* fetchGithubIssues *)

\* The repositories the caller may name: two in 'owner/repo' format and one
\* name without a repo part.
RepoNames == { <<"acme", "/", "widgets">>, <<"acme", "/", "gadgets">>, <<"acme">> }

\* The authors option: absent, or one login, in any case of letters.
AuthorOptions == { <<>>, <<"alice">>, <<"BOB">> }

\* String.prototype.toLowerCase, on the logins of the model.
ToLowerCase(login) ==
    CASE login = "Alice" -> "alice"
      [] login = "BOB" -> "bob"
      [] OTHER -> login

\* What issues.listForRepo gives for a repository: issues and pull requests
\* alike, each with the login of its user ("" for an item with no user).
ListForRepo(owner, repo) ==
    IF repo = <<"widgets">>
    THEN << [issue |-> "A", pull_request |-> FALSE, login |-> "Alice"],
            [issue |-> "P", pull_request |-> TRUE, login |-> "Alice"],
            [issue |-> "B", pull_request |-> FALSE, login |-> "bob"] >>
    ELSE << [issue |-> "Q", pull_request |-> TRUE, login |-> "bob"],
            [issue |-> "C", pull_request |-> FALSE, login |-> "Alice"],
            [issue |-> "N", pull_request |-> FALSE, login |-> ""] >>

\* data.filter(issue => !issue.pull_request).filter(issue => issue.user && ...)
IssuesOf(data, authors) ==
    SelectSeq(SelectSeq(data, LAMBDA issue : ~issue.pull_request),
              LAMBDA issue :
                  /\ issue.login # ""
                  /\ \/ Len(authors) = 0
                     \/ \E k \in 1..Len(authors) :
                           ToLowerCase(authors[k]) = ToLowerCase(issue.login))

\* repos.map(repo => repo.split('/')).filter(([owner, repo]) => owner && repo)
RepoPairs(repos) ==
    SelectSeq([k \in 1..Len(repos) |-> Split(repos[k], "/")],
              LAMBDA pair : Len(pair) >= 2 /\ pair[1] # <<>> /\ pair[2] # <<>>)

\* Array.prototype.flat on an array of arrays.
RECURSIVE Flat(_)
Flat(arrays) == IF Len(arrays) = 0 THEN <<>> ELSE Head(arrays) \o Flat(Tail(arrays))

FetchPending == [status |-> "pending", value |-> <<>>, why |-> ""]

\* An error handler that lets the error go on to the caller.
OnErrorRethrown(why) == [status |-> "rejected", value |-> <<>>, why |-> why]

\* fetchRepoIssues' catch: the error is logged and [] returned.
OnError(why) == [status |-> "fulfilled", value |-> <<>>, why |-> why]

InitFetch ==
    /\ SyncIdle
    /\ probe = NoProbe
    /\ \E repos \in UNION { [1..n -> RepoNames] : n \in 1..MaxRepos },
          authors \in AuthorOptions :
          fetch = [NoFetch EXCEPT !.status = "validating", !.repos = repos,
                                  !.authors = authors]

FetchOnly ==
    UNCHANGED <<config, linear, linear0, run, phase, filterPending, filtered, pc,
                existingIssue, githubAnswer, call, settled, results, previous,
                steps, probe>>

\* validateGithubToken returns: fetchRepoIssues is started for every pair.
TokenValid ==
    /\ fetch.status = "validating"
    /\ fetch' = [fetch EXCEPT
          !.status = "fetching",
          !.pairs = RepoPairs(fetch.repos),
          !.pc = [r \in 1..Len(RepoPairs(fetch.repos)) |-> "repo"],
          !.promises = [r \in 1..Len(RepoPairs(fetch.repos)) |-> FetchPending]]
    /\ FetchOnly

\* validateGithubToken finds the token bad or without the repo scope:
\* process.exit(1).
TokenInvalid ==
    /\ fetch.status = "validating"
    /\ fetch' = [fetch EXCEPT !.status = "exited"]
    /\ FetchOnly

FetchAwaits(r, what) ==
    fetch.status = "fetching" /\ r \in 1..Len(fetch.pairs) /\ fetch.pc[r] = what

\* repos.get answers: without pull permission the repository gives [].
RepoGetReturn(r) ==
    /\ FetchAwaits(r, "repo")
    /\ \E pull \in BOOLEAN :
          fetch' = IF pull
                   THEN [fetch EXCEPT !.pc[r] = "list"]
                   ELSE [fetch EXCEPT !.pc[r] = "done",
                            !.promises[r] = [status |-> "fulfilled", value |-> <<>>,
                                             why |-> "no read access"]]
    /\ FetchOnly

\* repos.get throws: 404, another GitHub error, or something else.
RepoGetFail(r) ==
    /\ FetchAwaits(r, "repo")
    /\ \E why \in {"not found", "error", "unexpected"} :
          fetch' = [fetch EXCEPT !.pc[r] = "done", !.promises[r] = OnError(why)]
    /\ FetchOnly

\* issues.listForRepo answers.
ListReturn(r) ==
    /\ FetchAwaits(r, "list")
    /\ fetch' = [fetch EXCEPT !.pc[r] = "done",
          !.promises[r] =
              [status |-> "fulfilled",
               value |-> IssuesOf(ListForRepo(fetch.pairs[r][1], fetch.pairs[r][2]),
                                  fetch.authors),
               why |-> ""]]
    /\ FetchOnly

\* issues.listForRepo throws.
ListFail(r) ==
    /\ FetchAwaits(r, "list")
    /\ \E why \in {"not found", "error", "unexpected"} :
          fetch' = [fetch EXCEPT !.pc[r] = "done", !.promises[r] = OnError(why)]
    /\ FetchOnly

\* Promise.all: rejects as soon as a promise is rejected, resolves when all
\* are fulfilled; the values are flattened into one list.
FetchJoin ==
    /\ fetch.status = "fetching"
    /\ IF \E r \in 1..Len(fetch.promises) : fetch.promises[r].status = "rejected"
       THEN fetch' = [fetch EXCEPT !.status = "rejected"]
       ELSE /\ \A r \in 1..Len(fetch.promises) : fetch.promises[r].status = "fulfilled"
            /\ fetch' = [fetch EXCEPT
                  !.status = "returned",
                  !.result = Flat([r \in 1..Len(fetch.promises) |->
                                      fetch.promises[r].value])]
    /\ FetchOnly

RepoSlots == 1..MaxRepos

NextFetch ==
    \/ TokenValid
    \/ TokenInvalid
    \/ \E r \in RepoSlots : RepoGetReturn(r)
    \/ \E r \in RepoSlots : RepoGetFail(r)
    \/ \E r \in RepoSlots : ListReturn(r)
    \/ \E r \in RepoSlots : ListFail(r)
    \/ FetchJoin

\* One call of fetchGithubIssues.
SpecFetch == InitFetch /\ [][NextFetch]_vars

-----------------------------------------------------------------------------
(* Claims *)

Pipelines == 1..Len(filtered)

Closed(p) == state[filtered[p]] = "closed"

FilterApplied == filterPending # <<>>

SkipMessage(p) == <<"Skipping closed GitHub issue: ">> \o GithubIssue[filtered[p]].html_url

\* C1: a pipeline whose source issue is closed and whose matcher returned no
\* record issues no create call and no other write, is never awaiting a write,
\* and when it ends it ends rejected; for filtered and for unfiltered batches.
C1_ClosedUnmatchedNeverWrites ==
    \A p \in Pipelines :
        (Closed(p) /\ existingIssue[p] = 0) =>
            /\ call[p].kind = "none"
            /\ pc[p] # "write"
            /\ settled[p].status # "fulfilled"
            /\ pc[p] = "settled" => settled[p].status = "rejected"

\* C1 witness: a closed issue that passed the pre-flight filter, was then found
\* to have no record by its pipeline, and was rejected by the short circuit.
C1_Witness ==
    /\ FilterApplied
    /\ \E p \in Pipelines :
          /\ Closed(p) /\ existingIssue[p] = 0
          /\ pc[p] = "settled" /\ settled[p] = Rejected(SkipMessage(p))

\* C2: a pipeline whose matcher returned a record never issues a create call;
\* the write it issues, for an open and for a closed source issue, is an update
\* of the very record matched.
C2_MatchedIsUpdated ==
    \A p \in Pipelines :
        existingIssue[p] > 0 =>
            /\ call[p].kind # "create"
            /\ (pc[p] = "write" \/ settled[p].status = "fulfilled") =>
                  (call[p].kind = "update" /\ call[p].id = existingIssue[p])
            /\ githubAnswer[p] # "pending" => call[p].kind = "update"

\* C2 witness: a closed source issue with a matched record, whose update the
\* mirror system has carried out.
C2_Witness ==
    \E p \in Pipelines :
        /\ Closed(p) /\ existingIssue[p] > 0
        /\ settled[p] = Fulfilled(existingIssue[p])
        /\ linear[existingIssue[p]] = call[p].input

\* C3: a pipeline of an open source issue whose matcher returned no record, once
\* past the existence check, has issued one create call: for the id of the
\* project the reference resolves to, for the team, with the derived title and,
\* the source being live, the backlog stage.
C3_OpenUnmatchedIsCreated ==
    \A p \in Pipelines :
        (~Closed(p) /\ existingIssue[p] = 0 /\ githubAnswer[p] # "pending") =>
            /\ call[p].kind = "create"
            /\ pc[p] \in {"write", "settled"}
            /\ call[p].input.projectId = Projects[FindProject(projectIdOrSlug)].id
            /\ call[p].input.teamId = teamId
            /\ call[p].input.title = createGithubTitle(GithubIssue[filtered[p]])
            /\ filtered[p] = "A" =>
                  call[p].input.title =
                      <<"[GH] ", "acme", "/", "widgets", "#", "1", ":", " ", "Fix race">>
            /\ githubAnswer[p] = "found" => call[p].input.stateId = "w2"

\* C3 witness: a create call carried out for a project given by its slug.
C3_Witness ==
    \E p \in Pipelines :
        /\ ~Closed(p) /\ existingIssue[p] = 0 /\ githubAnswer[p] = "found"
        /\ projectIdOrSlug = <<"s2">>
        /\ call[p].kind = "create" /\ call[p].input.projectId = "p2"
        /\ settled[p].status = "fulfilled"
        /\ linear[settled[p].value] = call[p].input

\* C4: in every write issued, the stage is the done stage exactly when the
\* source issue is closed or the existence check said false, and the backlog
\* stage exactly when it is open and the check said true.
C4_StageDerivation ==
    \A p \in Pipelines :
        call[p].kind # "none" =>
            LET sourceStillLive == githubAnswer[p] = "found"
            IN  /\ call[p].input.stateId = "w3" <=> (Closed(p) \/ ~sourceStillLive)
                /\ call[p].input.stateId = "w2" <=> (~Closed(p) /\ sourceStillLive)

\* C4 witness: two writes in one batch, one of a closed issue that is live and
\* one of an open issue that is gone.
C4_Witness ==
    \E p, q \in Pipelines :
        /\ call[p].kind # "none" /\ Closed(p) /\ githubAnswer[p] = "found"
        /\ call[q].kind # "none" /\ ~Closed(q) /\ githubAnswer[q] = "notfound"
        /\ call[q].input.stateId = "w3"

\* Whether the pipeline at p fails when its issue is synced alone, from the
\* mirror system as the run found it: a remote call of it is made to throw, the
\* configuration is wrong, or the issue is closed and no record matches it.
FailsAlone(p) ==
    \/ settled[p].message = RemoteError
    \/ FindProject(projectIdOrSlug) = 0
    \/ StatesMissing(workflow)
    \/ Closed(p) /\ MatchingRecords(linear0, GithubIssue[filtered[p]]) = {}

\* C5: a batch in which one issue's pipeline fails alone and each of the
\* others succeeds alone comes back from syncIssues with N-1 entries in
\* succeeded and one in failed, however the pipelines interleave.
C5_BatchIsolation ==
    (phase = "returned" /\ run = 1
        /\ Cardinality({p \in Pipelines : FailsAlone(p)}) = 1) =>
            /\ Len(results.succeeded) = Len(filtered) - 1
            /\ Len(results.failed) = 1

\* No issue of the batch has a URL that another's URL contains.
NoUrlContained ==
    \A p, q \in Pipelines :
        filtered[p] # filtered[q] =>
            ~Includes(GithubIssue[filtered[q]].html_url, GithubIssue[filtered[p]].html_url)

\* The same count for the batches in which no URL contains another's: there it
\* holds, so that the only interference between pipelines is the matcher's.
IsolationWithoutContainedUrls == NoUrlContained => C5_BatchIsolation

\* C6: syncIssues has returned only when every pipeline has settled; its result
\* then holds one outcome per input issue and no write of the batch is awaited.
C6_ReturnsAfterAllSettled ==
    phase = "returned" =>
        /\ \A p \in Pipelines : pc[p] = "settled" /\ settled[p].status # "pending"
        /\ \A p \in Pipelines : pc[p] # "write"
        /\ Len(results.succeeded) + Len(results.failed) = Len(filtered)
        /\ Len(results.succeeded) =
              Cardinality({p \in Pipelines : settled[p].status = "fulfilled"})
        /\ Len(results.failed) =
              Cardinality({p \in Pipelines : settled[p].status = "rejected"})

\* C6 witness: syncIssues has returned one success and one failure for a batch
\* of two.
C6_Witness ==
    /\ phase = "returned"
    /\ Len(filtered) = 2
    /\ Len(results.succeeded) = 1
    /\ Len(results.failed) = 1

\* No remote call failed in this run or the one before, and the existence check
\* gave one answer per source issue throughout.
SameConditions ==
    /\ \A p \in Pipelines :
          settled[p].message # RemoteError /\ githubAnswer[p] # "error"
    /\ \A q \in 1..Len(previous.filtered) :
          previous.settled[q].message # RemoteError /\ previous.githubAnswer[q] # "error"
    /\ \A p, q \in Pipelines :
          (filtered[p] = filtered[q] /\ githubAnswer[p] # "pending"
              /\ githubAnswer[q] # "pending") => githubAnswer[p] = githubAnswer[q]
    /\ \A p \in Pipelines : \A q \in 1..Len(previous.filtered) :
          (filtered[p] = previous.filtered[q] /\ githubAnswer[p] # "pending"
              /\ previous.githubAnswer[q] # "pending") =>
                  githubAnswer[p] = previous.githubAnswer[q]

\* C7: after a second run on the same source issues under the same conditions,
\* no issue the first run wrote has been created, the mirror system holds as
\* many records as after the first run, and every issue written in both runs
\* was written with the same title and stage.
C7_RerunConverges ==
    (run = 2 /\ phase = "returned" /\ SameConditions) =>
        /\ \A p \in Pipelines : \A q \in 1..Len(previous.filtered) :
              (filtered[p] = previous.filtered[q]
                  /\ previous.settled[q].status = "fulfilled") =>
                      call[p].kind # "create"
        /\ Len(linear) = previous.count
        /\ \A p \in Pipelines : \A q \in 1..Len(previous.filtered) :
              (filtered[p] = previous.filtered[q] /\ call[p].kind # "none"
                  /\ previous.call[q].kind # "none") =>
                      /\ call[p].input.title = previous.call[q].input.title
                      /\ call[p].input.stateId = previous.call[q].input.stateId

\* The same for the batches in which no URL contains another's: there the
\* second run converges.
RerunConvergesWithoutContainedUrls ==
    (\A p, q \in 1..Len(issues) :
        issues[p] # issues[q] =>
            ~Includes(GithubIssue[issues[q]].html_url, GithubIssue[issues[p]].html_url))
    => C7_RerunConverges

Misconfigured == FindProject(projectIdOrSlug) = 0 \/ StatesMissing(workflow)

\* The messages of the two configuration errors.
IsConfigurationError(message) ==
    \/ message = <<"Linear project not found: ">> \o projectIdOrSlug
    \/ /\ Len(message) >= 1
       /\ message[1] = "Required workflow states missing for team "

\* C8: with a project reference that does not resolve or a stage missing, the
\* batch coordinator does no per-issue work: no pipeline has its matching query
\* or its existence check answered, and the configuration error is neither the
\* rejection of a pipeline nor an entry of the failed list returned.
C8_ConfigurationErrorsAbortTheBatch ==
    Misconfigured =>
        /\ \A p \in Pipelines :
              /\ existingIssue[p] = -1
              /\ githubAnswer[p] = "pending"
              /\ ~IsConfigurationError(settled[p].message)
        /\ \A k \in 1..Len(results.failed) :
              ~IsConfigurationError(results.failed[k].message)

\* C9: a pipeline whose existence check failed issues no write and does not
\* end fulfilled; as with every other remote call, the failure is the issue's
\* Failed outcome.
C9_RemoteFailureIsTerminal ==
    \A p \in Pipelines :
        (githubAnswer[p] = "error" \/ settled[p].message = RemoteError) =>
            /\ call[p].kind = "none" \/ settled[p].message = RemoteError
            /\ settled[p].status # "fulfilled"
            /\ pc[p] # "write" \/ githubAnswer[p] # "error"

\* C10: a matching query that fails for one issue does not end the run: the
\* command is never aborted by it.
C10_MatchFailureIsPerIssue == phase # "aborted"

\* Where a step stands in the steps a pipeline ran through; 0 when it did not run.
Position(s, step) ==
    IF \E k \in 1..Len(s) : s[k] = step
    THEN CHOOSE k \in 1..Len(s) : s[k] = step /\ \A j \in 1..(k - 1) : s[j] # step
    ELSE 0

\* The second step ran only after the first one had.
Precedes(s, first, second) ==
    Position(s, second) > 0 =>
        /\ Position(s, first) > 0
        /\ Position(s, first) < Position(s, second)

\* One write at most, one exactly for a fulfilled pipeline, none for a pipeline
\* that ended before it issued its write; and the mirror system holds one new
\* record for every create carried out, and no other.
WritesOfPipelines ==
    /\ \A p \in Pipelines :
          /\ Cardinality({k \in 1..Len(steps[p]) : steps[p][k] = "write"}) <= 1
          /\ call[p].kind # "none" <=> Position(steps[p], "write") > 0
          /\ settled[p].status = "fulfilled" =>
                call[p].kind # "none" /\ Position(steps[p], "write") > 0
          /\ (settled[p].status = "rejected" /\ Position(steps[p], "write") = 0) =>
                call[p].kind = "none"
          /\ settled[p].message = SkipMessage(p) => call[p].kind = "none"
    /\ Len(linear) = Len(linear0) +
          Cardinality({p \in Pipelines :
              settled[p].status = "fulfilled" /\ call[p].kind = "create"})
    /\ (\A p \in Pipelines : settled[p].status # "fulfilled") => linear = linear0

C12_TitleIsInjective ==
    probe.titles # <<>> =>
        /\ (/\ probe.a.repository_url = probe.b.repository_url
            /\ probe.a.number = probe.b.number
            /\ probe.a.title = probe.b.title) => probe.titles[1] = probe.titles[2]
        /\ (\/ probe.a.repository_url # probe.b.repository_url
            \/ probe.a.number # probe.b.number) => probe.titles[1] # probe.titles[2]

\* C12 witness: the titles derived for number 2 of a/b1 and number 12 of a/b,
\* whose own titles are built from the separators of the derived title.
C12_Witness ==
    /\ probe.titles # <<>>
    /\ probe.a.number = 2 /\ probe.b.number = 12
    /\ probe.a.repository_url = RepositoryUrlOf(<<"a">>, <<"b", "1">>)
    /\ probe.b.repository_url = RepositoryUrlOf(<<"a">>, <<"b">>)
    /\ probe.a.title = <<":", " ">> /\ probe.b.title = <<"#", "2">>
    /\ probe.titles[1] = <<"[GH] ", "a", "/", "b", "1", "#", "2", ":", " ", ":", " ">>

OrphanWarning == <<"Original GitHub issue was deleted">>

\* C13: a pipeline that found a record and was told the source issue no longer
\* exists issues an update of that record, to the done stage; the description
\* of every write issued holds the deletion warning exactly when the existence
\* check did not say the issue exists, and always holds the issue's URL.
C13_OrphanIsMovedToDone ==
    \A p \in Pipelines :
        call[p].kind # "none" =>
            LET sourceStillLive == githubAnswer[p] = "found"
                description == call[p].input.description
            IN  /\ Includes(description, OrphanWarning) <=> ~sourceStillLive
                /\ Includes(description,
                            <<"GitHub: ">> \o GithubIssue[filtered[p]].html_url)
                /\ (~sourceStillLive /\ existingIssue[p] > 0) =>
                      /\ call[p].kind = "update"
                      /\ call[p].id = existingIssue[p]
                      /\ call[p].input.stateId = "w3"

\* C13 witness: the record of an open issue, in the backlog stage before the
\* run, has been moved to the done stage with the warning in its description
\* after the source tracker said the issue is gone.
C13_Witness ==
    \E p \in Pipelines :
        /\ ~Closed(p) /\ githubAnswer[p] = "notfound" /\ existingIssue[p] > 0
        /\ linear0[existingIssue[p]].stateId = "w2"
        /\ ~Includes(linear0[existingIssue[p]].description, OrphanWarning)
        /\ call[p].kind = "update" /\ settled[p].status = "fulfilled"
        /\ linear[existingIssue[p]].stateId = "w3"
        /\ Includes(linear[existingIssue[p]].description, OrphanWarning)
        /\ Len(linear) = Len(linear0)

\* The issue is closed and the matcher's query finds no record for it in the
\* mirror system as it was before the run.
ClosedWithoutRecord(i) ==
    state[i] = "closed" /\ MatchingRecords(linear0, GithubIssue[i]) = {}

\* C14: the pre-flight filter hands on exactly the issues it was given, in
\* their order, less those that are closed and for which the matcher finds no
\* record; while it runs no write is issued and the mirror system stays as it
\* was.
C14_FilterDropsClosedUnmatchedOnly ==
    /\ phase = "filtering" =>
          /\ linear = linear0
          /\ filtered = <<>> /\ call = <<>>
          /\ \A p \in 1..Len(issues) :
                /\ filterPending[p] = "kept" => ~ClosedWithoutRecord(issues[p])
                /\ filterPending[p] = "dropped" => ClosedWithoutRecord(issues[p])
    /\ (FilterApplied /\ phase \in {"syncing", "returned"}) =>
          filtered = SelectSeq(issues, LAMBDA i : ~ClosedWithoutRecord(i))

\* C14 witness: of two closed issues the filter has kept the one that has a
\* record and dropped the other, and the mirror system is as it was.
C14_Witness ==
    /\ FilterApplied /\ phase = "syncing"
    /\ Len(issues) = 2 /\ Len(filtered) = 1
    /\ \A p \in 1..2 : state[issues[p]] = "closed"
    /\ filterPending = <<"kept", "dropped">>
    /\ filtered = <<issues[1]>>
    /\ linear = linear0 /\ Len(linear) = 1
    /\ \A p \in Pipelines : call[p].kind = "none"

\* The record a pipeline found, as it was when the run began or, for a record
\* created since, as it is now.
RecordFound(p) ==
    IF existingIssue[p] <= Len(linear0) THEN linear0[existingIssue[p]]
    ELSE linear[existingIssue[p]]

\* C15: the record the matcher returns for an issue is the record of that
\* issue, the one that carries its derived title, and never the record of
\* another issue; so the update a pipeline issues never overwrites another
\* issue's record, also when the issue's URL is a proper prefix of the other's.
C15_MatcherReturnsOwnRecord ==
    \A p \in Pipelines :
        existingIssue[p] > 0 =>
            /\ RecordFound(p).title = createGithubTitle(GithubIssue[filtered[p]])
            /\ call[p].kind = "update" =>
                  /\ call[p].id = existingIssue[p]
                  /\ call[p].input.title = RecordFound(p).title

\* The reason string of the short circuit for closed issues.
IsSkip(message) == Len(message) > 0 /\ message[1] = "Skipping closed GitHub issue: "

\* The pipeline ended at the short circuit: its issue is closed and its matcher
\* returned no record.
EndedAtGate(p) ==
    /\ settled[p].status = "rejected"
    /\ Closed(p) /\ existingIssue[p] = 0 /\ githubAnswer[p] # "pending"

\* C16: a rejected pipeline carries the short circuit's reason string exactly
\* when it ended at the short circuit, with the URL of its issue; and the
\* failed list syncIssues returns holds one entry with that reason string for
\* each such pipeline, so that it splits into skips and hard failures.
C16_SkipIsDistinguishable ==
    /\ \A p \in Pipelines :
          settled[p].status = "rejected" =>
              /\ IsSkip(settled[p].message) <=> EndedAtGate(p)
              /\ EndedAtGate(p) => settled[p].message = SkipMessage(p)
    /\ phase = "returned" =>
          /\ Cardinality({k \in 1..Len(results.failed) : IsSkip(results.failed[k].message)})
                = Cardinality({p \in Pipelines : EndedAtGate(p)})
          /\ Cardinality({k \in 1..Len(results.failed) : ~IsSkip(results.failed[k].message)})
                = Cardinality({p \in Pipelines :
                                  settled[p].status = "rejected" /\ ~EndedAtGate(p)})

\* C16 witness: syncIssues has returned a failed list of two, one entry a skip
\* and the other the failure of a remote call.
C16_Witness ==
    /\ phase = "returned"
    /\ Len(results.failed) = 2
    /\ \E j, k \in 1..2 :
          /\ IsSkip(results.failed[j].message)
          /\ results.failed[k].message = RemoteError
    /\ \E p \in Pipelines : EndedAtGate(p)

\* The pipelines of the run before this one that were rejected.
RejectedBefore ==
    {q \in 1..Len(previous.filtered) : previous.settled[q].status = "rejected"}

RejectedNow == {p \in Pipelines : settled[p].status = "rejected"}

\* C17: the failed list syncIssues returns tells which issue each entry is of:
\* when two runs over the same issues each have one pipeline fail, on the same
\* error of a remote call made before any write, but not the pipeline of the
\* same issue, the two failed lists returned are not the same (for issues
\* none of whose URLs contains another's).
C17_FailedEntriesNameTheirIssue ==
    (/\ run = 2 /\ phase = "returned"
     /\ previous.filtered = filtered
     /\ NoUrlContained
     /\ \E q \in RejectedBefore, p \in RejectedNow :
           /\ RejectedBefore = {q} /\ RejectedNow = {p}
           /\ filtered[q] # filtered[p]
           /\ previous.settled[q].message = RemoteError
           /\ settled[p].message = RemoteError
           /\ previous.call[q].kind = "none" /\ call[p].kind = "none")
    => results.failed # Partition(previous.settled).failed

\* The records of the mirror system that carry the derived title of the issue.
RecordsOf(i) ==
    {k \in 1..Len(linear) : linear[k].title = createGithubTitle(GithubIssue[i])}

\* C18: whatever the interleaving of the pipelines, the mirror system holds at
\* most one record for a source issue, also when the issue is handed to two
\* pipelines of one batch (for issues none of whose URLs contains another's).
C18_NoDuplicateMirrors ==
    NoUrlContained => \A i \in IssueIds : Cardinality(RecordsOf(i)) <= 1

\* No accessible project has the reference as its id, as its slugId or in its url.
ProjectUnresolved ==
    \A k \in 1..Len(Projects) :
        /\ <<Projects[k].id>> # projectIdOrSlug
        /\ <<Projects[k].slugId>> # projectIdOrSlug
        /\ ~Includes(Projects[k].url, projectIdOrSlug)

\* The team's workflow has no Backlog stage or no Done stage.
StageMissing ==
    \/ \A k \in 1..Len(workflow) : workflow[k].name # "Backlog"
    \/ \A k \in 1..Len(workflow) : workflow[k].name # "Done"

\* C19: when the project reference resolves to no project, or the team's
\* workflow lacks the Backlog or the Done stage, no pipeline issues a create or
\* an update, none is fulfilled, the mirror system stays as it was before the
\* run, and syncIssues returns every issue it was given as failed.
C19_NoWriteUnderMisconfiguration ==
    (ProjectUnresolved \/ StageMissing) =>
        /\ \A p \in Pipelines :
              /\ call[p].kind = "none"
              /\ pc[p] # "write"
              /\ settled[p].status # "fulfilled"
        /\ linear = linear0
        /\ phase = "returned" =>
              /\ Len(results.failed) = Len(filtered)
              /\ results.succeeded = <<>>

\* C19 witness: syncIssues has returned two failures for a batch of two, one
\* for the missing stage and one for a remote call, and the mirror system
\* holds the record it held before.
C19_Witness ==
    /\ phase = "returned"
    /\ StageMissing /\ ~ProjectUnresolved
    /\ Len(filtered) = 2 /\ Len(results.failed) = 2
    /\ \E p \in Pipelines :
          /\ Len(settled[p].message) > 0
          /\ settled[p].message[1] = "Required workflow states missing for team "
    /\ linear = linear0 /\ Len(linear) = 1

\* The same under the other misconfiguration: the project reference resolves
\* to nothing and every issue of the batch is reported failed.
UnresolvedProjectReported ==
    /\ phase = "returned"
    /\ ProjectUnresolved
    /\ Len(filtered) = 2 /\ Len(results.failed) = 2
    /\ linear = linear0

\* The repository's fetch failed: not found, no read access, or an error of
\* either call.
FetchFailed(r) == fetch.promises[r].why # ""

\* C20: a repository whose fetch fails gives an empty list and does not make
\* the call fail; the call returns, in the order of the repositories named,
\* the issues of every repository whose fetch did not fail, and no pull
\* request.
C20_FetchIsolatesRepositories ==
    /\ fetch.status # "rejected"
    /\ \A r \in 1..Len(fetch.promises) :
          /\ fetch.promises[r].status # "rejected"
          /\ FetchFailed(r) =>
                fetch.promises[r].status = "fulfilled" /\ fetch.promises[r].value = <<>>
    /\ fetch.status = "returned" =>
          /\ fetch.result =
                Flat([r \in 1..Len(fetch.pairs) |->
                        IF FetchFailed(r) THEN <<>>
                        ELSE SelectSeq(ListForRepo(fetch.pairs[r][1], fetch.pairs[r][2]),
                                LAMBDA issue :
                                    /\ ~issue.pull_request
                                    /\ issue.login # ""
                                    /\ \/ fetch.authors = <<>>
                                       \/ ToLowerCase(fetch.authors[1])
                                            = ToLowerCase(issue.login))])
          /\ \A k \in 1..Len(fetch.result) : ~fetch.result[k].pull_request

\* C20 witness: of two repositories named the first was not found, and the call
\* has returned the two issues of the second, without its pull request.
C20_Witness ==
    /\ fetch.status = "returned"
    /\ fetch.repos = << <<"acme", "/", "gadgets">>, <<"acme", "/", "widgets">> >>
    /\ fetch.authors = <<>>
    /\ fetch.promises[1].why = "not found"
    /\ Len(fetch.result) = 2
    /\ fetch.result[1].issue = "A" /\ fetch.result[2].issue = "B"

====
